---- MODULE Spec2Model ----
(***************************************************************************)
(* Model of the CGE mail relay (src/server.js): an Express application     *)
(* with POST /send-pdf-email, GET /health and GET /logs.                   *)
(*                                                                         *)
(* JavaScript strings are sequences of one-character strings, so that      *)
(* concatenation, String.prototype.includes and prefixes are computed.     *)
(* JavaScript values are records [t, s, n, a]: t is the type tag, s the    *)
(* characters of a string, n a number (or 0/1 for a boolean), a the        *)
(* elements of an array of strings.                                        *)
(***************************************************************************)
EXTENDS Integers, Sequences, FiniteSets

(* ---------------- bounds ---------------- *)
NReq == 2

MaxClock == 1

(* ---------------- string literals of server.js ---------------- *)
MissingRequiredFields ==
  <<"M", "i", "s", "s", "i", "n", "g", " ", "r", "e", "q", "u", "i", "r", "e", "d", " ", "f", "i", "e", "l", "d", "s">>

InvalidEmailAddress ==
  <<"I", "n", "v", "a", "l", "i", "d", " ", "e", "m", "a", "i", "l", " ", "a", "d", "d", "r", "e", "s", "s">>

OwnerSubject ==
  <<"Y", "o", "u", "r", " ", "Q", "u", "a", "r", "t", "e", "r", "l", "y", " ", "P", "i", "p", "e", "l", "i", "n", "e", " ", "S", "n", "a", "p", "s", "h", "o", "t">>

TeamSubject ==
  <<"'", "s", " ", "T", "e", "a", "m", " ", "P", "i", "p", "e", "l", "i", "n", "e", " ", "S", "n", "a", "p", "s", "h", "o", "t">>

SubjectDash ==
  <<" ", "-", " ">>

HiGreeting ==
  <<"H", "i", " ">>

FromAddress ==
  <<"m", "i", "c", "h", "a", "e", "l", ".", "r", "y", "b", "a", "c", "k", "i", "@", "s", "m", "a", "r", "t", "s", "h", "e", "e", "t", ".", "c", "o", "m">>

EmailSentTo ==
  <<"E", "m", "a", "i", "l", " ", "s", "e", "n", "t", " ", "t", "o", " ">>

SendGridError ==
  <<"S", "e", "n", "d", "G", "r", "i", "d", " ", "E", "r", "r", "o", "r", ":", " ">>

BackendIsRunning ==
  <<"B", "a", "c", "k", "e", "n", "d", " ", "i", "s", " ", "r", "u", "n", "n", "i", "n", "g">>

BackendIsOperational ==
  <<"B", "a", "c", "k", "e", "n", "d", " ", "i", "s", " ", "o", "p", "e", "r", "a", "t", "i", "o", "n", "a", "l">>

Development ==
  <<"d", "e", "v", "e", "l", "o", "p", "m", "e", "n", "t">>

Owner ==
  <<"o", "w", "n", "e", "r">>

(* ---------------- JavaScript values ---------------- *)
JSUndefined == [t |-> "undefined", s |-> <<>>, n |-> 0, a |-> <<>>]

JSNull == [t |-> "null", s |-> <<>>, n |-> 0, a |-> <<>>]

JSBool(b) == [t |-> "boolean", s |-> <<>>, n |-> IF b THEN 1 ELSE 0, a |-> <<>>]

JSNumber(k) == [t |-> "number", s |-> <<>>, n |-> k, a |-> <<>>]

JSString(str) == [t |-> "string", s |-> str, n |-> 0, a |-> <<>>]

JSArray(elems) == [t |-> "array", s |-> <<>>, n |-> 0, a |-> elems]

JSObject == [t |-> "object", s |-> <<>>, n |-> 0, a |-> <<>>]

(* ToBoolean: what `!v` and `v || w` test. *)
Truthy(v) ==
  CASE v.t = "undefined" -> FALSE
    [] v.t = "null" -> FALSE
    [] v.t = "boolean" -> v.n = 1
    [] v.t = "number" -> v.n # 0
    [] v.t = "string" -> v.s # <<>>
    [] OTHER -> TRUE

RECURSIVE Digits(_)
Digits(k) ==
  IF k < 10
  THEN <<SubSeq(<<"0", "1", "2", "3", "4", "5", "6", "7", "8", "9">>, k + 1, k + 1)[1]>>
  ELSE Digits(k \div 10) \o Digits(k % 10)

RECURSIVE Join(_)
Join(elems) ==
  IF elems = <<>> THEN <<>>
  ELSE IF Len(elems) = 1 THEN elems[1]
  ELSE elems[1] \o <<",">> \o Join(Tail(elems))

(* ToString: what a template literal `${v}` produces. *)
ToString(v) ==
  CASE v.t = "undefined" -> <<"u", "n", "d", "e", "f", "i", "n", "e", "d">>
    [] v.t = "null" -> <<"n", "u", "l", "l">>
    [] v.t = "boolean" -> IF v.n = 1 THEN <<"t", "r", "u", "e">> ELSE <<"f", "a", "l", "s", "e">>
    [] v.t = "number" -> IF v.n < 0 THEN <<"-">> \o Digits(0 - v.n) ELSE Digits(v.n)
    [] v.t = "string" -> v.s
    [] v.t = "array" -> Join(v.a)
    [] OTHER -> <<"[", "o", "b", "j", "e", "c", "t", " ", "O", "b", "j", "e", "c", "t", "]">>

(* v.includes is a function only on strings and arrays. *)
HasIncludes(v) == v.t \in {"string", "array"}

(* String.prototype.includes(c) for a one-character c, and             *)
(* Array.prototype.includes(c): some element is the string c.           *)
Includes(v, c) ==
  IF v.t = "string"
  THEN \E i \in 1..Len(v.s) : v.s[i] = c
  ELSE \E i \in 1..Len(v.a) : v.a[i] = <<c>>

(* s starts with p / s contains p, on character sequences. *)
StartsWith(s, p) == Len(s) >= Len(p) /\ SubSeq(s, 1, Len(p)) = p

Contains(s, p) ==
  \E i \in 0..(Len(s) - Len(p)) : SubSeq(s, i + 1, i + Len(p)) = p

(* ---------------- Buffer.from(x, 'base64').toString('base64') ---------------- *)
B64Alphabet ==
  <<"A", "B", "C", "D", "E", "F", "G", "H", "I", "J", "K", "L", "M", "N", "O", "P", "Q", "R", "S", "T", "U", "V", "W", "X", "Y", "Z", "a", "b", "c", "d", "e", "f", "g", "h", "i", "j", "k", "l", "m", "n", "o", "p", "q", "r", "s", "t", "u", "v", "w", "x", "y", "z", "0", "1", "2", "3", "4", "5", "6", "7", "8", "9", "+", "/">>

(* The 6-bit value of a character, or -1 when it is not a base64 character *)
(* ('-' and '_' are accepted as 62 and 63).                                *)
Unbase64(c) ==
  IF c = "-" THEN 62
  ELSE IF c = "_" THEN 63
  ELSE IF \E i \in 1..64 : B64Alphabet[i] = c
       THEN (CHOOSE i \in 1..64 : B64Alphabet[i] = c) - 1
       ELSE 0 - 1

(* The sextets of a string: decoding stops at the first '=', and any other *)
(* character outside the alphabet is skipped.                              *)
RECURSIVE Sextets(_)
Sextets(str) ==
  IF str = <<>> \/ Head(str) = "=" THEN <<>>
  ELSE IF Unbase64(Head(str)) < 0 THEN Sextets(Tail(str))
  ELSE <<Unbase64(Head(str))>> \o Sextets(Tail(str))

RECURSIVE BytesOf(_)
BytesOf(six) ==
  IF Len(six) < 2 THEN <<>>
  ELSE IF Len(six) = 2
       THEN <<six[1] * 4 + six[2] \div 16>>
  ELSE IF Len(six) = 3
       THEN <<six[1] * 4 + six[2] \div 16, (six[2] % 16) * 16 + six[3] \div 4>>
  ELSE <<six[1] * 4 + six[2] \div 16, (six[2] % 16) * 16 + six[3] \div 4,
         (six[3] % 4) * 64 + six[4]>> \o BytesOf(SubSeq(six, 5, Len(six)))

BufferFromBase64(str) == BytesOf(Sextets(str))

RECURSIVE BufferToBase64(_)
BufferToBase64(bytes) ==
  IF bytes = <<>> THEN <<>>
  ELSE IF Len(bytes) = 1
       THEN <<B64Alphabet[bytes[1] \div 4 + 1], B64Alphabet[(bytes[1] % 4) * 16 + 1], "=", "=">>
  ELSE IF Len(bytes) = 2
       THEN <<B64Alphabet[bytes[1] \div 4 + 1],
              B64Alphabet[(bytes[1] % 4) * 16 + bytes[2] \div 16 + 1],
              B64Alphabet[(bytes[2] % 16) * 4 + 1], "=">>
  ELSE <<B64Alphabet[bytes[1] \div 4 + 1],
         B64Alphabet[(bytes[1] % 4) * 16 + bytes[2] \div 16 + 1],
         B64Alphabet[(bytes[2] % 16) * 4 + bytes[3] \div 64 + 1],
         B64Alphabet[(bytes[3] % 64) + 1]>> \o BufferToBase64(SubSeq(bytes, 4, Len(bytes)))

(* Buffer.from(v, 'base64') throws a TypeError unless v is a string or an  *)
(* array.                                                                  *)
BufferFromThrows(v) == v.t \notin {"string", "array"}

BufferFromTypeError ==
  <<"T", "h", "e", " ", "f", "i", "r", "s", "t", " ", "a", "r", "g", "u", "m", "e", "n", "t", " ", "m", "u", "s", "t", " ", "b", "e", " ", "o", "f", " ", "t", "y", "p", "e", " ", "s", "t", "r", "i", "n", "g", " ", "o", "r", " ", "a", "n", " ", "i", "n", "s", "t", "a", "n", "c", "e", " ", "o", "f", " ", "B", "u", "f", "f", "e", "r", ",", " ", "A", "r", "r", "a", "y", "B", "u", "f", "f", "e", "r", ",", " ", "o", "r", " ", "A", "r", "r", "a", "y", " ", "o", "r", " ", "a", "n", " ", "A", "r", "r", "a", "y", "-", "l", "i", "k", "e", " ", "O", "b", "j", "e", "c", "t", ".">>

IncludesNotAFunction ==
  <<"r", "e", "c", "i", "p", "i", "e", "n", "t", "E", "m", "a", "i", "l", ".", "i", "n", "c", "l", "u", "d", "e", "s", " ", "i", "s", " ", "n", "o", "t", " ", "a", " ", "f", "u", "n", "c", "t", "i", "o", "n">>

(* ---------------- clock ---------------- *)
(* The clock counts days from 1 January 2025.                              *)
TwoDigits(k) == IF k < 10 THEN <<"0">> \o Digits(k) ELSE Digits(k)

(* today.toLocaleDateString('en-US', {month: 'short', day: 'numeric', year: 'numeric'}) *)
DateStr(now) == <<"J", "a", "n", " ">> \o Digits(now + 1) \o <<",", " ", "2", "0", "2", "5">>

(* new Date().toISOString() *)
ISOString(now) == <<"2", "0", "2", "5", "-", "0", "1", "-">> \o TwoDigits(now + 1) \o <<"T", "0", "0", ":", "0", "0", ":", "0", "0", ".", "0", "0", "0", "Z">>

(* ---------------- requests, provider errors ---------------- *)
Reqs == 1..NReq

Body(re, rn, sn, st, pb, pf, cc) ==
  [recipientEmail |-> re, recipientName |-> rn, senderName |-> sn, senderType |-> st,
   pdfBase64 |-> pb, pdfFilename |-> pf, ccEmail |-> cc, quartersLabel |-> JSUndefined]

EmptyBody ==
  Body(JSUndefined, JSUndefined, JSUndefined, JSUndefined, JSUndefined, JSUndefined, JSUndefined)

NoRequest == [route |-> "none", body |-> EmptyBody]

(* An error thrown in the handler or rejected by sgMail.send: its message, *)
(* and of error.response.body.errors the message property of each element  *)
(* (JSUndefined where an element has none).                                *)
Error(m, hasResponse, hasBody, hasErrors, errs) ==
  [message |-> m, hasResponse |-> hasResponse, hasBody |-> hasBody,
   hasErrors |-> hasErrors, errors |-> errs]

TypeError(m) == Error(m, FALSE, FALSE, FALSE, <<>>)

NoOutcome == [kind |-> "none", error |-> TypeError(<<>>)]

RecipientEmails ==
  {JSUndefined, JSNull, JSString(<<>>), JSNumber(0), JSBool(FALSE),
   JSString(<<"a", "@", "b", ".", "c", "o", "m">>), JSString(<<"a", "b", ".", "c", "o", "m">>), JSString(<<"@">>),
   JSNumber(7), JSBool(TRUE), JSObject,
   JSArray(<<<<"a", "@", "b", ".", "c", "o", "m">>>>), JSArray(<<<<"@">>>>), JSArray(<<>>)}

PdfBase64s ==
  {JSUndefined, JSString(<<>>), JSString(<<"J", "V", "B", "E", "R", "i", "0", "=">>), JSString(<<"Q", "R", "=", "=">>),
   JSString(<<"Q", " ", "Q">>), JSNumber(5), JSObject}

PdfFilenames == {JSUndefined, JSString(<<>>), JSString(<<"q", ".", "p", "d", "f">>), JSNumber(9)}

SenderTypes ==
  {JSUndefined, JSNull, JSString(Owner), JSString(<<"O", "w", "n", "e", "r">>), JSString(<<"m", "a", "n", "a", "g", "e", "r">>),
   JSArray(<<Owner>>)}

SenderNames == {JSUndefined, JSString(<<"A", "l", "e", "x">>), JSNumber(5)}

CcEmails == {JSUndefined, JSString(<<"c", "@", "d", ".", "i", "o">>)}

(* Every shape of the required fields, and every shape of the template's   *)
(* inputs on requests that pass validation.                                *)
RichBodies ==
  {Body(re, JSString(<<"P", "a", "t">>), JSString(<<"A", "l", "e", "x">>), JSString(Owner), pb, pf, JSUndefined) :
     re \in RecipientEmails, pb \in PdfBase64s, pf \in PdfFilenames}
  \cup
  {Body(re, JSString(<<"P", "a", "t">>), sn, st, JSString(<<"J", "V", "B", "E", "R", "i", "0", "=">>), JSString(<<"q", ".", "p", "d", "f">>), cc) :
     re \in {JSString(<<"a", "@", "b", ".", "c", "o", "m">>), JSArray(<<<<"@">>>>)},
     sn \in SenderNames, st \in SenderTypes, cc \in CcEmails}

Bodies ==
  {Body(JSString(<<"a", "@", "b", ".", "c", "o", "m">>), JSString(<<"P", "a", "t">>), JSString(<<"A", "l", "e", "x">>), JSString(Owner),
        JSString(<<"J", "V", "B", "E", "R", "i", "0", "=">>), JSString(<<"q", ".", "p", "d", "f">>), JSUndefined),
   Body(JSString(<<"c", "@", "d", ".", "i", "o">>), JSString(<<"P", "a", "t">>), JSString(<<"A", "l", "e", "x">>), JSString(<<"m", "a", "n", "a", "g", "e", "r">>),
        JSString(<<"J", "V", "B", "E", "R", "i", "0">>), JSString(<<"r", ".", "p", "d", "f">>), JSString(<<"a", "@", "b", ".", "c", "o", "m">>)),
   Body(JSString(<<"a", "@", "b", ".", "c", "o", "m">>), JSString(<<"P", "a", "t">>), JSString(<<"A", "l", "e", "x">>), JSString(Owner),
        JSUndefined, JSString(<<"q", ".", "p", "d", "f">>), JSUndefined),
   Body(JSNumber(7), JSString(<<"P", "a", "t">>), JSString(<<"A", "l", "e", "x">>), JSString(Owner),
        JSString(<<"J", "V", "B", "E", "R", "i", "0", "=">>), JSString(<<"q", ".", "p", "d", "f">>), JSUndefined)}

Unauthorized ==
  <<"U", "n", "a", "u", "t", "h", "o", "r", "i", "z", "e", "d">>

BadKey ==
  <<"B", "a", "d", " ", "k", "e", "y">>

RichErrors ==
  {Error(<<"E", "C", "O", "N", "N", "R", "E", "F", "U", "S", "E", "D">>, FALSE, FALSE, FALSE, <<>>),
   Error(Unauthorized, TRUE, FALSE, FALSE, <<>>),
   Error(Unauthorized, TRUE, TRUE, FALSE, <<>>),
   Error(Unauthorized, TRUE, TRUE, TRUE, <<>>),
   Error(Unauthorized, TRUE, TRUE, TRUE, <<JSUndefined>>),
   Error(Unauthorized, TRUE, TRUE, TRUE, <<JSString(<<>>), JSString(BadKey)>>),
   Error(Unauthorized, TRUE, TRUE, TRUE, <<JSString(BadKey)>>),
   Error(Unauthorized, TRUE, TRUE, TRUE, <<JSString(BadKey), JSString(<<"S", "e", "c", "o", "n", "d">>)>>),
   Error(Unauthorized, TRUE, TRUE, TRUE, <<JSNumber(42)>>)}

Errors == {e \in RichErrors : e.errors = <<JSString(BadKey)>>}

(* process.env as read by server.js *)
Env(key, port, nodeEnv) == [SENDGRID_API_KEY |-> key, PORT |-> port, NODE_ENV |-> nodeEnv]

Envs ==
  {Env(JSUndefined, JSUndefined, JSUndefined),
   Env(JSString(<<>>), JSUndefined, JSUndefined),
   Env(JSString(<<"S", "G", ".", "k">>), JSString(<<"8", "0", "8", "0">>), JSString(<<"p", "r", "o", "d", "u", "c", "t", "i", "o", "n">>))}

(* ---------------- state ---------------- *)
VARIABLES
  env,        \* process.env
  clock,      \* the server's current day
  pc,         \* per request: "new", "awaiting" (suspended at await), "settled", "done"
  req,        \* per request: the route and the parsed JSON body
  sgCalls,    \* per request: the messages handed to sgMail.send
  sgOutcome,  \* per request: how the promise of sgMail.send settled
  resp        \* per request: the responses written to res

vars == <<env, clock, pc, req, sgCalls, sgOutcome, resp>>

Init ==
  /\ env \in Envs
  /\ clock = 0
  /\ pc = [r \in Reqs |-> "new"]
  /\ req = [r \in Reqs |-> NoRequest]
  /\ sgCalls = [r \in Reqs |-> <<>>]
  /\ sgOutcome = [r \in Reqs |-> NoOutcome]
  /\ resp = [r \in Reqs |-> <<>>]

(* ---------------- POST /send-pdf-email ---------------- *)
(* RequiredMissing without the test of pdfFilename. *)
RequiredMissingNoFilename(b) ==
  ~Truthy(b.recipientEmail) \/ ~Truthy(b.pdfBase64)

RequiredMissing(b) ==
  ~Truthy(b.recipientEmail) \/ ~Truthy(b.pdfBase64) \/ ~Truthy(b.pdfFilename)

(* senderType == 'owner': loose equality converts an array to a string. *)
IsOwnerLoose(st) == st.t \in {"string", "array"} /\ ToString(st) = Owner

(* senderType === 'owner' *)
IsOwner(st) == st.t = "string" /\ st.s = Owner

Subject(b, now) ==
  IF IsOwner(b.senderType)
  THEN OwnerSubject \o SubjectDash \o DateStr(now)
  ELSE ToString(b.senderName) \o TeamSubject \o SubjectDash \o DateStr(now)

(* The HTML body: its heading and greeting; the fixed markup and prose of  *)
(* each variant are named by the variant.                                  *)
HtmlBody(b) ==
  IF IsOwner(b.senderType)
  THEN [variant |-> "owner", heading |-> OwnerSubject,
        greeting |-> HiGreeting \o ToString(b.recipientName) \o <<",">>]
  ELSE [variant |-> "team", heading |-> ToString(b.senderName) \o TeamSubject,
        greeting |-> HiGreeting \o ToString(b.recipientName) \o <<",">>]

(* Buffer.from(pdfBase64, 'base64'): an array of non-numeric strings gives *)
(* one zero byte per element.                                              *)
PdfBuffer(v) ==
  IF v.t = "string" THEN BufferFromBase64(v.s) ELSE [i \in 1..Len(v.a) |-> 0]

Msg(b, now) ==
  [to |-> b.recipientEmail,
   cc |-> b.ccEmail,
   from |-> FromAddress,
   subject |-> Subject(b, now),
   html |-> HtmlBody(b),
   attachments |-> <<[content |-> BufferToBase64(PdfBuffer(b.pdfBase64)),
                      filename |-> b.pdfFilename,
                      type |-> "application/pdf",
                      disposition |-> "attachment"]>>]

(* The message of the last element of the error list instead of the first. *)
FirstErrorMessageLast(e) ==
  IF e.hasResponse /\ e.hasBody /\ e.hasErrors /\ Len(e.errors) > 0
  THEN e.errors[Len(e.errors)]
  ELSE JSUndefined

(* error.response?.body?.errors?.[0]?.message *)
FirstErrorMessage(e) ==
  IF e.hasResponse /\ e.hasBody /\ e.hasErrors /\ Len(e.errors) > 0
  THEN e.errors[1]
  ELSE JSUndefined

(* ErrorMessage without the fallback `|| error.message`. *)
ErrorMessageNoFallback(e) ==
  IF e.hasResponse
  THEN SendGridError \o ToString(FirstErrorMessage(e))
  ELSE e.message

(* errorMessage as computed by the catch block *)
ErrorMessage(e) ==
  IF e.hasResponse
  THEN SendGridError \o (IF Truthy(FirstErrorMessage(e))
                         THEN ToString(FirstErrorMessage(e))
                         ELSE e.message)
  ELSE e.message

(* SuccessResponse naming recipientName instead of recipientEmail. *)
SuccessResponseName(b, now) ==
  [status |-> 200,
   body |-> [success |-> TRUE,
             message |-> EmailSentTo \o ToString(b.recipientName),
             timestamp |-> ISOString(now)]]

SuccessResponse(b, now) ==
  [status |-> 200,
   body |-> [success |-> TRUE,
             message |-> EmailSentTo \o ToString(b.recipientEmail),
             timestamp |-> ISOString(now)]]

CatchResponse(e, now) ==
  [status |-> 500, body |-> [error |-> ErrorMessage(e), timestamp |-> ISOString(now)]]

BadRequest(m) == [status |-> 400, body |-> [error |-> m]]

(* What the handler does from its entry to its first return, throw or await. *)
Validation(b) ==
  IF RequiredMissing(b) THEN "missing"
  ELSE IF ~HasIncludes(b.recipientEmail) THEN "throwIncludes"
  ELSE IF ~Includes(b.recipientEmail, "@") THEN "invalid"
  ELSE IF BufferFromThrows(b.pdfBase64) THEN "throwBuffer"
  ELSE "send"

Finish(r, response) ==
  /\ resp' = [resp EXCEPT ![r] = Append(@, response)]
  /\ pc' = [pc EXCEPT ![r] = "done"]

(* The request arrives with body b and the handler runs to its first       *)
(* return, throw or await.                                                 *)
SendPdfEmail(r, b) ==
  /\ pc[r] = "new"
  /\ req' = [req EXCEPT ![r] = [route |-> "POST /send-pdf-email", body |-> b]]
  /\ CASE Validation(b) = "missing" ->
            /\ Finish(r, BadRequest(MissingRequiredFields))
            /\ UNCHANGED sgCalls
       [] Validation(b) = "invalid" ->
            /\ Finish(r, BadRequest(InvalidEmailAddress))
            /\ UNCHANGED sgCalls
       [] Validation(b) = "throwIncludes" ->
            /\ Finish(r, CatchResponse(TypeError(IncludesNotAFunction), clock))
            /\ UNCHANGED sgCalls
       [] Validation(b) = "throwBuffer" ->
            /\ Finish(r, CatchResponse(TypeError(BufferFromTypeError), clock))
            /\ UNCHANGED sgCalls
       [] OTHER ->
            /\ sgCalls' = [sgCalls EXCEPT ![r] = Append(@, Msg(b, clock))]
            /\ pc' = [pc EXCEPT ![r] = "awaiting"]
            /\ UNCHANGED resp
  /\ UNCHANGED <<env, clock, sgOutcome>>

(* The provider accepts the message: the promise of sgMail.send fulfils.   *)
SgFulfil(r) ==
  /\ pc[r] = "awaiting"
  /\ sgOutcome' = [sgOutcome EXCEPT ![r] = [kind |-> "ok", error |-> TypeError(<<>>)]]
  /\ pc' = [pc EXCEPT ![r] = "settled"]
  /\ UNCHANGED <<env, clock, req, sgCalls, resp>>

(* The provider rejects or is unreachable: the promise rejects with e.     *)
SgReject(r, e) ==
  /\ pc[r] = "awaiting"
  /\ sgOutcome' = [sgOutcome EXCEPT ![r] = [kind |-> "err", error |-> e]]
  /\ pc' = [pc EXCEPT ![r] = "settled"]
  /\ UNCHANGED <<env, clock, req, sgCalls, resp>>

(* AfterAwait reading the body of the latest POST request, as if the body   *)
(* were kept in a variable of the module.                                   *)
AfterAwaitShared(r) ==
  /\ pc[r] = "settled"
  /\ sgOutcome[r].kind = "ok"
  /\ LET last == CHOOSE q \in Reqs :
                   /\ req[q].route = "POST /send-pdf-email"
                   /\ \A p \in Reqs : req[p].route = "POST /send-pdf-email" => p <= q
     IN Finish(r, SuccessResponse(req[last].body, clock))
  /\ UNCHANGED <<env, clock, req, sgCalls, sgOutcome>>

(* The handler resumes after a fulfilled await.                            *)
AfterAwait(r) ==
  /\ pc[r] = "settled"
  /\ sgOutcome[r].kind = "ok"
  /\ Finish(r, SuccessResponse(req[r].body, clock))
  /\ UNCHANGED <<env, clock, req, sgCalls, sgOutcome>>

(* CatchError calling sgMail.send once more before it gives up. *)
CatchErrorRetry(r) ==
  /\ pc[r] = "settled"
  /\ sgOutcome[r].kind = "err"
  /\ IF Len(sgCalls[r]) < 2
     THEN /\ sgCalls' = [sgCalls EXCEPT ![r] = Append(@, Msg(req[r].body, clock))]
          /\ sgOutcome' = [sgOutcome EXCEPT ![r] = NoOutcome]
          /\ pc' = [pc EXCEPT ![r] = "awaiting"]
          /\ UNCHANGED resp
     ELSE /\ Finish(r, CatchResponse(sgOutcome[r].error, clock))
          /\ UNCHANGED <<sgCalls, sgOutcome>>
  /\ UNCHANGED <<env, clock, req>>

(* CatchError logging the error and writing no response. *)
CatchErrorSilent(r) ==
  /\ pc[r] = "settled"
  /\ sgOutcome[r].kind = "err"
  /\ pc' = [pc EXCEPT ![r] = "done"]
  /\ UNCHANGED <<env, clock, req, sgCalls, sgOutcome, resp>>

(* The handler resumes in its catch block after a rejected await.          *)
CatchError(r) ==
  /\ pc[r] = "settled"
  /\ sgOutcome[r].kind = "err"
  /\ Finish(r, CatchResponse(sgOutcome[r].error, clock))
  /\ UNCHANGED <<env, clock, req, sgCalls, sgOutcome>>

(* ---------------- GET /health, GET /logs ---------------- *)
HealthResponse(e, now) ==
  [status |-> 200,
   body |-> [status |-> BackendIsRunning,
             timestamp |-> ISOString(now),
             environment |-> IF Truthy(e.NODE_ENV) THEN e.NODE_ENV.s ELSE Development]]

(* LogsResponse testing that the key is defined rather than truthy. *)
LogsResponseDefined(e, now) ==
  [status |-> 200,
   body |-> [message |-> BackendIsOperational,
             sendgridConfigured |-> e.SENDGRID_API_KEY.t # "undefined",
             timestamp |-> ISOString(now)]]

LogsResponse(e, now) ==
  [status |-> 200,
   body |-> [message |-> BackendIsOperational,
             sendgridConfigured |-> Truthy(e.SENDGRID_API_KEY),
             timestamp |-> ISOString(now)]]

Health(r) ==
  /\ pc[r] = "new"
  /\ req' = [req EXCEPT ![r] = [route |-> "GET /health", body |-> EmptyBody]]
  /\ Finish(r, HealthResponse(env, clock))
  /\ UNCHANGED <<env, clock, sgCalls, sgOutcome>>

Logs(r) ==
  /\ pc[r] = "new"
  /\ req' = [req EXCEPT ![r] = [route |-> "GET /logs", body |-> EmptyBody]]
  /\ Finish(r, LogsResponse(env, clock))
  /\ UNCHANGED <<env, clock, sgCalls, sgOutcome>>

(* Time passes. *)
Tick ==
  /\ clock < MaxClock
  /\ clock' = clock + 1
  /\ UNCHANGED <<env, pc, req, sgCalls, sgOutcome, resp>>

(* ---------------- specifications ---------------- *)
(* Several requests in flight, a few bodies and one provider error. *)
Next ==
  \/ \E r \in Reqs, b \in Bodies : SendPdfEmail(r, b)
  \/ \E r \in Reqs : SgFulfil(r)
  \/ \E r \in Reqs, e \in Errors : SgReject(r, e)
  \/ \E r \in Reqs : AfterAwait(r)
  \/ \E r \in Reqs : CatchError(r)
  \/ \E r \in Reqs : Health(r)
  \/ \E r \in Reqs : Logs(r)
  \/ Tick

Spec == Init /\ [][Next]_vars

(* Several requests in flight with one body of each outcome of validation   *)
(* and one provider error. The event loop runs a continuation once its      *)
(* promise has settled.                                                      *)
FairBodies ==
  {b \in Bodies : b.senderType = JSString(Owner)}

FairErrors == Errors

NextFair ==
  \/ \E r \in Reqs, b \in FairBodies : SendPdfEmail(r, b)
  \/ \E r \in Reqs : SgFulfil(r)
  \/ \E r \in Reqs, e \in FairErrors : SgReject(r, e)
  \/ \E r \in Reqs : AfterAwait(r)
  \/ \E r \in Reqs : CatchError(r)
  \/ \E r \in Reqs : Health(r)
  \/ \E r \in Reqs : Logs(r)
  \/ Tick

FairSpec ==
  /\ Init
  /\ [][NextFair]_vars
  /\ \A r \in Reqs : WF_vars(AfterAwait(r)) /\ WF_vars(CatchError(r))

(* One request, every shape of body and of provider error. *)
NextOne ==
  \/ \E b \in RichBodies : SendPdfEmail(1, b)
  \/ SgFulfil(1)
  \/ \E e \in RichErrors : SgReject(1, e)
  \/ AfterAwait(1)
  \/ CatchError(1)
  \/ Health(1)
  \/ Logs(1)
  \/ Tick

SpecOne == Init /\ [][NextOne]_vars

(* ---------------- properties ---------------- *)
IsPost(r) == req[r].route = "POST /send-pdf-email"

Responded(r) == Len(resp[r]) = 1

Response(r) == resp[r][1]

AbsentOrEmpty(v) == v.t = "undefined" \/ (v.t = "string" /\ v.s = <<>>)

Timestamps == {ISOString(k) : k \in 0..MaxClock}

(* C1: a POST /send-pdf-email request whose recipientEmail, pdfBase64 or     *)
(* pdfFilename is absent or empty is answered 400 "Missing required fields", *)
(* and sgMail.send is never invoked for it.                                  *)
C1_MissingFieldsRejected ==
  \A r \in Reqs :
    (/\ IsPost(r)
     /\ \/ AbsentOrEmpty(req[r].body.recipientEmail)
        \/ AbsentOrEmpty(req[r].body.pdfBase64)
        \/ AbsentOrEmpty(req[r].body.pdfFilename))
    => /\ resp[r] = <<[status |-> 400, body |-> [error |-> MissingRequiredFields]]>>
       /\ sgCalls[r] = <<>>
       /\ pc[r] = "done"

C1_Witness ==
  \E r \in Reqs :
    /\ IsPost(r)
    /\ req[r].body.recipientEmail = JSString(<<"a", "@", "b", ".", "c", "o", "m">>)
    /\ req[r].body.pdfBase64 = JSString(<<"J", "V", "B", "E", "R", "i", "0", "=">>)
    /\ req[r].body.pdfFilename = JSString(<<>>)
    /\ Responded(r)
    /\ Response(r).status = 400

(* C2: a POST /send-pdf-email request whose recipientEmail is present, of    *)
(* any JSON type, and does not contain "@" (pdfBase64 and pdfFilename being  *)
(* present) is answered 400 "Invalid email address", and sgMail.send is      *)
(* never invoked for it.                                                     *)
C2_NoAtRejected ==
  \A r \in Reqs :
    (/\ IsPost(r)
     /\ Truthy(req[r].body.recipientEmail)
     /\ Truthy(req[r].body.pdfBase64)
     /\ Truthy(req[r].body.pdfFilename)
     /\ ~Contains(ToString(req[r].body.recipientEmail), <<"@">>))
    => /\ resp[r] = <<[status |-> 400, body |-> [error |-> InvalidEmailAddress]]>>
       /\ sgCalls[r] = <<>>

(* C3 as stated: when the provider fails with a structured error list, the   *)
(* response is 500 and its error field equals the first element's message.   *)
C3_ErrorEqualsFirstMessage ==
  \A r \in Reqs :
    (/\ pc[r] = "done"
     /\ sgOutcome[r].kind = "err"
     /\ sgOutcome[r].error.hasResponse
     /\ sgOutcome[r].error.hasBody
     /\ sgOutcome[r].error.hasErrors
     /\ Len(sgOutcome[r].error.errors) > 0
     /\ sgOutcome[r].error.errors[1].t = "string"
     /\ sgOutcome[r].error.errors[1].s # <<>>)
    => /\ Responded(r)
       /\ Response(r).status = 500
       /\ Response(r).body.error = sgOutcome[r].error.errors[1].s

(* C3 amended: when the provider fails with a structured error list whose    *)
(* first element has a non-empty message, the response is 500 and its error  *)
(* field is "SendGrid Error: " followed by that message, not the generic     *)
(* transport error message.                                                  *)
C3_ErrorIsPrefixedFirstMessage ==
  \A r \in Reqs :
    (/\ pc[r] = "done"
     /\ sgOutcome[r].kind = "err"
     /\ sgOutcome[r].error.hasResponse
     /\ sgOutcome[r].error.hasBody
     /\ sgOutcome[r].error.hasErrors
     /\ Len(sgOutcome[r].error.errors) > 0
     /\ sgOutcome[r].error.errors[1].t = "string"
     /\ sgOutcome[r].error.errors[1].s # <<>>)
    => /\ Responded(r)
       /\ Response(r).status = 500
       /\ Response(r).body.error = SendGridError \o sgOutcome[r].error.errors[1].s
       /\ ~Contains(Response(r).body.error, sgOutcome[r].error.message)

C3_Witness ==
  \E r \in Reqs :
    /\ pc[r] = "done"
    /\ sgOutcome[r].kind = "err"
    /\ sgOutcome[r].error.hasErrors
    /\ Len(sgOutcome[r].error.errors) = 2
    /\ sgOutcome[r].error.errors[1] = JSString(BadKey)
    /\ Responded(r)
    /\ Response(r).status = 500

(* C4: a valid POST /send-pdf-email request whose provider call succeeds is  *)
(* answered 200 with success = true and a message containing the request's   *)
(* recipientEmail, and a 200 is only written once the provider call has       *)
(* resolved successfully.                                                     *)
C4_SuccessResponse ==
  \A r \in Reqs :
    /\ (IsPost(r) /\ sgOutcome[r].kind = "ok" /\ pc[r] = "done")
       => /\ Responded(r)
          /\ Response(r).status = 200
          /\ DOMAIN Response(r).body = {"success", "message", "timestamp"}
          /\ Response(r).body.success = TRUE
          /\ Contains(Response(r).body.message, ToString(req[r].body.recipientEmail))
          /\ Response(r).body.timestamp \in Timestamps
    /\ (IsPost(r) /\ resp[r] # <<>> /\ resp[r][1].status = 200)
       => /\ sgOutcome[r].kind = "ok"
          /\ Len(sgCalls[r]) = 1
          /\ Truthy(req[r].body.recipientEmail)
          /\ Truthy(req[r].body.pdfBase64)
          /\ Truthy(req[r].body.pdfFilename)

C4_Witness ==
  \E r \in Reqs :
    /\ IsPost(r)
    /\ req[r].body.recipientEmail = JSString(<<"a", "@", "b", ".", "c", "o", "m">>)
    /\ sgOutcome[r].kind = "ok"
    /\ Responded(r)
    /\ Response(r).status = 200

(* C5: no retry. sgMail.send is invoked at most once per request; once its   *)
(* call has failed the request makes no further provider call, and its next  *)
(* step is the 500 response that ends it.                                    *)
C5_NoRetry ==
  [][\A r \in Reqs :
       /\ Len(sgCalls'[r]) <= 1
       /\ (sgOutcome[r].kind = "err")
          => /\ sgCalls'[r] = sgCalls[r]
             /\ sgOutcome'[r] = sgOutcome[r]
             /\ pc'[r] \in {pc[r], "done"}
             /\ (pc'[r] = "done")
                => /\ Len(resp'[r]) = 1
                   /\ resp'[r][1].status = 500]_vars

C5_Witness ==
  \E r \in Reqs :
    /\ IsPost(r)
    /\ Len(sgCalls[r]) = 1
    /\ sgOutcome[r].kind = "err"
    /\ pc[r] = "done"
    /\ Responded(r)
    /\ Response(r).status = 500

(* C6: every request that ends has exactly one response, of status 200, 400  *)
(* or 500; a POST /send-pdf-email is answered 200 exactly when the provider  *)
(* was invoked and reported success; and once the provider call has          *)
(* resolved, the handler eventually responds.                                *)
C6_OneOutcome ==
  \A r \in Reqs :
    /\ Len(resp[r]) <= 1
    /\ (pc[r] = "done") <=> (Len(resp[r]) = 1)
    /\ (resp[r] # <<>>) => resp[r][1].status \in {200, 400, 500}
    /\ (IsPost(r) /\ resp[r] # <<>>)
       => ((resp[r][1].status = 200)
            <=> (Len(sgCalls[r]) = 1 /\ sgOutcome[r].kind = "ok"))

C6_ExactlyOneResponse ==
  /\ []C6_OneOutcome
  /\ \A r \in Reqs : (pc[r] = "settled") ~> (Len(resp[r]) = 1)

C6_Witness ==
  \E r, q \in Reqs :
    /\ IsPost(r) /\ Responded(r) /\ Response(r).status = 200
    /\ IsPost(q) /\ Responded(q) /\ Response(q).status = 500
    /\ sgOutcome[q].kind = "err"

(* C7: concurrent requests are independent. Under every interleaving, the    *)
(* message handed to the provider for a request is built from that request's *)
(* own body, its response from its own body and the provider's answer to its *)
(* own call, and process.env is never changed.                               *)
C7_OwnMessage(r) ==
  (sgCalls[r] # <<>>)
  => /\ IsPost(r)
     /\ sgCalls[r][1].to = req[r].body.recipientEmail
     /\ sgCalls[r][1].cc = req[r].body.ccEmail
     /\ sgCalls[r][1].attachments[1].filename = req[r].body.pdfFilename
     /\ sgCalls[r][1].html.greeting
          = HiGreeting \o ToString(req[r].body.recipientName) \o <<",">>
     /\ IF req[r].body.senderType = JSString(Owner)
        THEN StartsWith(sgCalls[r][1].subject, OwnerSubject)
        ELSE StartsWith(sgCalls[r][1].subject,
                        ToString(req[r].body.senderName) \o TeamSubject)

C7_OwnResponse(r) ==
  (resp[r] # <<>>)
  => CASE req[r].route = "GET /health" -> resp[r][1].status = 200
       [] req[r].route = "GET /logs" -> resp[r][1].status = 200
       [] req[r].route = "POST /send-pdf-email" /\ sgCalls[r] = <<>> ->
            /\ resp[r][1].status \in {400, 500}
            /\ sgOutcome[r].kind = "none"
       [] req[r].route = "POST /send-pdf-email" /\ sgOutcome[r].kind = "ok" ->
            /\ resp[r][1].status = 200
            /\ resp[r][1].body.message
                 = EmailSentTo \o ToString(req[r].body.recipientEmail)
       [] req[r].route = "POST /send-pdf-email" /\ sgOutcome[r].kind = "err" ->
            /\ resp[r][1].status = 500
            /\ \/ resp[r][1].body.error = sgOutcome[r].error.message
               \/ StartsWith(resp[r][1].body.error, SendGridError)
       [] OTHER -> FALSE

C7_Independent ==
  /\ [](\A r \in Reqs : C7_OwnMessage(r) /\ C7_OwnResponse(r))
  /\ [][env' = env]_vars

C7_Witness ==
  \E r, q \in Reqs :
    /\ IsPost(r) /\ IsPost(q)
    /\ req[r].body.recipientEmail # req[q].body.recipientEmail
    /\ pc[q] = "awaiting"
    /\ sgCalls[r] # <<>>
    /\ Responded(r)
    /\ Response(r).status = 200

(* C8: GET /health and GET /logs are answered 200 whatever the configuration *)
(* and whatever earlier sends did; sendgridConfigured in the /logs response  *)
(* is true exactly when SENDGRID_API_KEY is a non-empty string.              *)
C8_HealthAndLogs ==
  \A r \in Reqs :
    /\ (req[r].route \in {"GET /health", "GET /logs"})
       => /\ Responded(r)
          /\ Response(r).status = 200
    /\ (req[r].route = "GET /logs")
       => (Response(r).body.sendgridConfigured
             <=> (env.SENDGRID_API_KEY.t = "string" /\ env.SENDGRID_API_KEY.s # <<>>))

C8_Witness ==
  \E r, q \in Reqs :
    /\ req[r].route = "GET /logs"
    /\ Responded(r)
    /\ ~Response(r).body.sendgridConfigured
    /\ env.SENDGRID_API_KEY = JSString(<<>>)
    /\ IsPost(q) /\ Responded(q) /\ Response(q).status = 500

(* C9: template selection is an exact match on senderType. For senderType    *)
(* "owner" the subject handed to the provider starts with "Your Quarterly    *)
(* Pipeline Snapshot"; for every other value it contains senderName followed *)
(* by "'s Team Pipeline Snapshot".                                           *)
C9_TemplateSelection ==
  \A r \in Reqs :
    (sgCalls[r] # <<>>)
    => IF req[r].body.senderType = JSString(Owner)
       THEN StartsWith(sgCalls[r][1].subject, OwnerSubject)
       ELSE Contains(sgCalls[r][1].subject,
                     ToString(req[r].body.senderName) \o TeamSubject)

C9_Witness ==
  \E r \in Reqs :
    /\ sgCalls[r] # <<>>
    /\ req[r].body.senderType = JSString(<<"O", "w", "n", "e", "r">>)
    /\ req[r].body.senderName = JSString(<<"A", "l", "e", "x">>)
    /\ StartsWith(sgCalls[r][1].subject, <<"A", "l", "e", "x", "'", "s", " ", "T", "e", "a", "m", " ", "P", "i", "p", "e", "l", "i", "n", "e", " ", "S", "n", "a", "p", "s", "h", "o", "t", " ", "-", " ", "J", "a", "n", " ">>)

NoStructuredDetail(e) == ~e.hasResponse \/ ~e.hasBody \/ ~e.hasErrors

(* C10 as stated: when the provider fails with no structured error detail    *)
(* (no transport response, or no error list on it), the response is 500, its *)
(* error field is the raw error message, and the body reports success=false  *)
(* together with a timestamp.                                                *)
C10_RawMessageAndSuccessFalse ==
  \A r \in Reqs :
    (pc[r] = "done" /\ sgOutcome[r].kind = "err"
       /\ NoStructuredDetail(sgOutcome[r].error))
    => /\ Responded(r)
       /\ Response(r).status = 500
       /\ Response(r).body.error = sgOutcome[r].error.message
       /\ "success" \in DOMAIN Response(r).body
       /\ Response(r).body.success = FALSE
       /\ "timestamp" \in DOMAIN Response(r).body

(* C10 amended: when the provider fails with no structured error detail, the *)
(* response is 500; its error field is the raw error message when there is   *)
(* no transport response, and "SendGrid Error: " followed by the raw error   *)
(* message when there is one; the body holds that error and a timestamp, and *)
(* no success field.                                                         *)
C10_FallbackMessage ==
  \A r \in Reqs :
    (pc[r] = "done" /\ sgOutcome[r].kind = "err"
       /\ NoStructuredDetail(sgOutcome[r].error))
    => /\ Responded(r)
       /\ Response(r).status = 500
       /\ DOMAIN Response(r).body = {"error", "timestamp"}
       /\ Response(r).body.error
            = IF sgOutcome[r].error.hasResponse
              THEN SendGridError \o sgOutcome[r].error.message
              ELSE sgOutcome[r].error.message
       /\ Response(r).body.timestamp \in Timestamps

C10_Witness ==
  \E r \in Reqs :
    /\ pc[r] = "done"
    /\ sgOutcome[r].kind = "err"
    /\ sgOutcome[r].error.hasResponse
    /\ sgOutcome[r].error.hasBody
    /\ ~sgOutcome[r].error.hasErrors
    /\ Responded(r)
    /\ Response(r).status = 500
====
